---- MODULE Spec2Model ----
(***************************************************************************)
(* Particle simulation of src/src/App.tsx: the Particle class              *)
(* (collideWithRadius, move) and the App component's handlers (animate,    *)
(* mouse handlers, mode buttons, leak checkbox, the edit panel's inputs,   *)
(* updateCanvasSize).                                                      *)
(*                                                                         *)
(* Numbers.  The program's numbers are IEEE doubles.  The model keeps them *)
(* in fixed point, Unit units to the pixel, and rounds every product to    *)
(* the nearest unit, ties to even, as IEEE rounds to the nearest double.   *)
(* The additions and comparisons of the code are exact on these values.    *)
(* A product below half a unit rounds to zero, as a double's does below    *)
(* half the smallest subnormal: the leak of a velocity under Unit / 4 is   *)
(* zero here.  Math.sqrt(d) < r is decided on the squares, which agrees    *)
(* with the doubles at this resolution.                                    *)
(* JavaScript runs each handler to completion, so the handlers never       *)
(* interleave: the forEach of animate is walked with the index idx and no  *)
(* other handler is enabled while idx # 0.                                 *)
(***************************************************************************)
EXTENDS Integers, Sequences, FiniteSets, TLC

\* ---------------------------------------------------------------- bounds
NumParticles == 2
MaxFrames == 2
MaxEvents == 3

\* ------------------------------------------------------------- constants
Unit == 10^3

MAX_PARTICLE_SIZE == 15 * Unit
MIN_PARTICLE_SIZE == 5 * Unit
MOUSE_COLLISION_RADIUS == 10 * Unit
PARTICLE_COLLISION_VELOCITY == (5 * Unit) \div 1000
PARTICLE_VELOCITY_LEAK_MODIFIER == [num |-> 2, den |-> 1000]

TCanvasMode == {"collision", "edit"}

\* ------------------------------------------------------------ arithmetic
Abs(n) == IF n < 0 THEN -n ELSE n
Min(a, b) == IF a < b THEN a ELSE b
Max(a, b) == IF a > b THEN a ELSE b

\* n / d rounded to the nearest integer, ties to even (d > 0)
RoundDiv(n, d) ==
  LET a == Abs(n)
      q == a \div d
      r == a % d
      m == IF 2 * r > d \/ (2 * r = d /\ q % 2 = 1) THEN q + 1 ELSE q
  IN IF n < 0 THEN -m ELSE m

\* v * 0.5 and v * -0.5
Half(v) == RoundDiv(v, 2)
NegHalf(v) == RoundDiv(-v, 2)
\* v * PARTICLE_VELOCITY_LEAK_MODIFIER
LeakOf(v) ==
  RoundDiv(v * PARTICLE_VELOCITY_LEAK_MODIFIER.num, PARTICLE_VELOCITY_LEAK_MODIFIER.den)

\* Math.sqrt(dx*dx + dy*dy) < r, computed on the squares
Within(dx, dy, r) ==
  /\ r > 0
  /\ Abs(dx) < r
  /\ Abs(dy) < r
  /\ dx * dx < r * r - dy * dy

\* ------------------------------------------------------------ environment
\* canvas.getBoundingClientRect()
Rect == [left |-> 8 * Unit, top |-> 8 * Unit]
\* canvas.clientWidth x canvas.clientHeight as laid out by the browser
ClientSizes == {[width |-> 32 * Unit, height |-> 32 * Unit]}
\* the layout when the component mounts
MountSize == [width |-> 40 * Unit, height |-> 40 * Unit]
\* e.clientX, e.clientY of mouse events
ClientPoints == {[x |-> 28 * Unit, y |-> 23 * Unit]}
\* values typed in the edit panel's inputs (Number(e.target.value))
SizeInputs == {0, 20 * Unit}
CoordInputs == {20 * Unit}

\* particles, canvas, mode, velocityLeak, mousePos, activeParticle: the refs
\* and the state of App (lines 105-110).  idx: the position of the forEach of
\* animate, 0 between frames.  frames, events: frames completed and handlers
\* run, the run's length.  History, read by the properties only: resized (a
\* resize since the last frame), frame (the array at the start of the frame
\* and this frame's results), last (the latest call of move).
VARIABLES particles, canvas, mode, velocityLeak, mousePos, activeParticle,
          idx, frames, events, resized, frame, last

vars == <<particles, canvas, mode, velocityLeak, mousePos, activeParticle,
          idx, frames, events, resized, frame, last>>

Indices == 1..NumParticles

\* ---------------------------------------------------------------- Particle
\* draws of the constructor: x = Math.random() * canvas.width,
\* y = Math.random() * canvas.height,
\* size = Math.floor(Math.random() * (MAX - MIN + 1) + MIN)
RandomDraws(cv) ==
  {[x |-> 0, y |-> 0, size |-> MIN_PARTICLE_SIZE],
   [x |-> cv.width \div 2, y |-> cv.height \div 2, size |-> MAX_PARTICLE_SIZE],
   [x |-> cv.width \div 2, y |-> 0, size |-> MAX_PARTICLE_SIZE]}

NewParticles(cv) ==
  {[x |-> r.x, y |-> r.y, size |-> r.size, dirX |-> 0, dirY |-> 0] : r \in RandomDraws(cv)}

\* particles of a simulation that has been running: velocity accumulated
\* from earlier collisions, position anywhere the integration can leave it
RunningStates(cv, s) ==
  {[x |-> cv.width \div 2, dirX |-> Unit, dirY |-> 0],
   [x |-> cv.width - s - (Unit \div 2), dirX |-> Unit, dirY |-> 0],
   [x |-> cv.width - s + (Unit \div 2), dirX |-> -(Unit \div 2), dirY |-> (3 * Unit) \div 10]}

RunningParticles(cv) ==
  {[x |-> r.x, y |-> cv.height \div 2, size |-> MIN_PARTICLE_SIZE,
    dirX |-> r.dirX, dirY |-> r.dirY] : r \in RunningStates(cv, MIN_PARTICLE_SIZE)}

\* the test of collideWithRadius: distance < collisionRadius + this.size
Collides(p, cords, collisionRadius) ==
  Within(cords.x - p.x, cords.y - p.y, collisionRadius + p.size)

PushXInclusive(p, cords) ==
  (IF p.x <= cords.x THEN -PARTICLE_COLLISION_VELOCITY ELSE 0)
  + (IF p.x > cords.x THEN PARTICLE_COLLISION_VELOCITY ELSE 0)

PushX(p, cords) ==
  (IF p.x < cords.x THEN -PARTICLE_COLLISION_VELOCITY ELSE 0)
  + (IF p.x > cords.x THEN PARTICLE_COLLISION_VELOCITY ELSE 0)

PushY(p, cords) ==
  (IF p.y < cords.y THEN -PARTICLE_COLLISION_VELOCITY ELSE 0)
  + (IF p.y > cords.y THEN PARTICLE_COLLISION_VELOCITY ELSE 0)

collideWithRadius(p, cords, collisionRadius) ==
  IF Collides(p, cords, collisionRadius)
    THEN [p EXCEPT !.dirX = @ + PushX(p, cords), !.dirY = @ + PushY(p, cords)]
    ELSE p

MouseCollisionAnyMode(p, mouse, md) ==
  collideWithRadius(p, mouse, MOUSE_COLLISION_RADIUS)

\* line 70: the pointer takes part in collision mode only
MouseCollision(p, mouse, md) ==
  IF md = "collision" THEN collideWithRadius(p, mouse, MOUSE_COLLISION_RADIUS) ELSE p

IsSelfByValue(self, arr, i) == arr[i] = arr[self]

\* line 75: this === p1; an object sits at exactly one index of the array
IsSelf(self, arr, i) == i = self

NeighbourRadiusOwn(p, p1) == p.size

\* line 76: the neighbour's own size is its collision radius
NeighbourRadius(p, p1) == p1.size

NeighbourCheck(p, p1) ==
  collideWithRadius(p, [x |-> p1.x, y |-> p1.y], NeighbourRadius(p, p1))

\* lines 73-77, from index i on
RECURSIVE CollideOthers(_, _, _, _)
CollideOthers(p, self, arr, i) ==
  IF i > Len(arr) THEN p
  ELSE IF IsSelf(self, arr, i) THEN CollideOthers(p, self, arr, i + 1)
  ELSE CollideOthers(NeighbourCheck(p, arr[i]), self, arr, i + 1)

\* the indices the loop of lines 73-77 passes to collideWithRadius, in order
RECURSIVE CheckedFrom(_, _, _)
CheckedFrom(self, arr, i) ==
  IF i > Len(arr) THEN << >>
  ELSE IF IsSelf(self, arr, i) THEN CheckedFrom(self, arr, i + 1)
  ELSE <<i>> \o CheckedFrom(self, arr, i + 1)

\* some test of line 50 holds during lines 69-77
AnyCollision(p, self, mouse, arr, md) ==
  \/ md = "collision" /\ Collides(p, mouse, MOUSE_COLLISION_RADIUS)
  \/ \E i \in 1..Len(arr) :
       ~IsSelf(self, arr, i) /\ Collides(p, arr[i], NeighbourRadius(p, arr[i]))

\* lines 69-77
Collisions(p, self, mouse, arr, md) ==
  CollideOthers(MouseCollision(p, mouse, md), self, arr, 1)

HitsXAhead(p, cv) ==
  p.x + p.size + p.dirX >= cv.width \/ p.x - p.size + p.dirX <= 0

HitsX(p, cv) == p.x + p.size >= cv.width \/ p.x - p.size <= 0
HitsY(p, cv) == p.y + p.size >= cv.height \/ p.y - p.size <= 0

ClampXNone(p, cv) == p.x
ClampX(p, cv) == Min(Max(p.size, p.x), cv.width - p.size)
ClampYEdge(p, cv) == Min(Max(p.size, p.y), cv.height)
ClampY(p, cv) == Min(Max(p.size, p.y), cv.height - p.size)

\* lines 80-85
BounceX(p, cv) ==
  IF HitsX(p, cv)
    THEN [p EXCEPT !.dirX = NegHalf(@), !.dirY = Half(@), !.x = ClampX(p, cv)]
    ELSE p

\* lines 86-90
BounceY(p, cv) ==
  IF HitsY(p, cv)
    THEN [p EXCEPT !.dirY = NegHalf(@), !.dirX = Half(@), !.y = ClampY(p, cv)]
    ELSE p

\* lines 79-90
Bounce(p, cv) == BounceY(BounceX(p, cv), cv)

\* lines 93-94
Integrate(p) == [p EXCEPT !.x = @ + p.dirX, !.y = @ + p.dirY]

VelocityLeakGain(p, leak) ==
  IF leak THEN [p EXCEPT !.dirX = @ + LeakOf(@), !.dirY = @ + LeakOf(@)] ELSE p

\* lines 97-100
VelocityLeak(p, leak) ==
  IF leak THEN [p EXCEPT !.dirX = @ - LeakOf(@), !.dirY = @ - LeakOf(@)] ELSE p

move(p, self, mouse, arr, md, leak, cv) ==
  VelocityLeak(Integrate(Bounce(Collisions(p, self, mouse, arr, md), cv)), leak)

\* ---------------------------------------------------------------------- App
convertCordsToCanvasCords(pt) == [x |-> pt.x - Rect.left, y |-> pt.y - Rect.top]

Covers(p, pt) ==
  p.x - p.size <= pt.x /\ p.x + p.size >= pt.x /\ p.y - p.size <= pt.y /\ p.y + p.size >= pt.y

\* index of the first particle whose bounding box holds pt, 0 for undefined
findParticleWithCords(pt) ==
  IF \E i \in Indices : Covers(particles[i], pt)
    THEN CHOOSE i \in Indices :
           Covers(particles[i], pt) /\ \A j \in 1..(i - 1) : ~Covers(particles[j], pt)
    ELSE 0

ParticlesArrAtStart == IF idx = 0 THEN particles ELSE frame.start

\* line 184: the array handed to move is the live array
ParticlesArr == particles

Zero == [x |-> 0, y |-> 0, size |-> 0, dirX |-> 0, dirY |-> 0]

\* log of the latest call of move: its arguments, what lines 69-90 did
NoMove == [i |-> 0, pre |-> Zero, mid |-> Zero, mouse |-> [x |-> 0, y |-> 0],
           mode |-> "collision", leak |-> FALSE, canvas |-> MountSize,
           collided |-> FALSE, hitX |-> FALSE, hitY |-> FALSE,
           checked |-> << >>, resized |-> FALSE]

TypeOK ==
  /\ mode \in TCanvasMode
  /\ velocityLeak \in BOOLEAN
  /\ activeParticle \in 0..NumParticles
  /\ idx \in 0..(NumParticles - 1)
  /\ frames \in 0..MaxFrames
  /\ events \in 0..MaxEvents
  /\ Len(particles) = NumParticles

InitApp ==
  /\ canvas = MountSize
  /\ mode = "collision"
  /\ velocityLeak = FALSE
  /\ mousePos = [x |-> 0, y |-> 0]
  /\ activeParticle = 0
  /\ idx = 0
  /\ frames = 0
  /\ events = 0
  /\ resized = FALSE
  /\ frame = [start |-> particles, moved |-> << >>]
  /\ last = NoMove

\* after the effects of lines 133-191 have run once
Init ==
  /\ particles \in [Indices -> NewParticles(MountSize)]
  /\ InitApp

\* the simulation picked up while it runs
InitRunning ==
  /\ particles \in [Indices -> RunningParticles(MountSize)]
  /\ InitApp

\* one iteration of the forEach of animate (lines 183-186)
Animate ==
  /\ frames < MaxFrames
  /\ LET self == idx + 1
         mouse == convertCordsToCanvasCords(mousePos)
         p == particles[self]
         c == Collisions(p, self, mouse, ParticlesArr, mode)
         q == move(p, self, mouse, ParticlesArr, mode, velocityLeak, canvas)
     IN /\ particles' = [particles EXCEPT ![self] = q]
        /\ last' = [i |-> self, pre |-> p, mid |-> Bounce(c, canvas),
                    mouse |-> mouse, mode |-> mode, leak |-> velocityLeak,
                    canvas |-> canvas,
                    collided |-> AnyCollision(p, self, mouse, ParticlesArr, mode),
                    hitX |-> HitsX(c, canvas), hitY |-> HitsY(c, canvas),
                    checked |-> CheckedFrom(self, ParticlesArr, 1),
                    resized |-> resized]
        /\ frame' = IF idx = 0
                      THEN [start |-> particles, moved |-> <<q>>]
                      ELSE [frame EXCEPT !.moved = Append(@, q)]
        /\ idx' = IF self = NumParticles THEN 0 ELSE self
        /\ frames' = IF self = NumParticles THEN frames + 1 ELSE frames
        /\ resized' = IF self = NumParticles THEN FALSE ELSE resized
  /\ UNCHANGED <<canvas, mode, velocityLeak, mousePos, activeParticle, events>>

\* a handler other than animate runs between two frames
Event ==
  /\ idx = 0
  /\ events < MaxEvents
  /\ events' = events + 1

\* lines 136-139, on a window resize
updateCanvasSize ==
  /\ Event
  /\ \E cs \in ClientSizes : canvas' = cs
  /\ resized' = TRUE
  /\ UNCHANGED <<particles, mode, velocityLeak, mousePos, activeParticle,
                 idx, frames, frame, last>>

\* line 150
handleMouseMove ==
  /\ Event
  /\ \E pt \in ClientPoints : mousePos' = pt
  /\ UNCHANGED <<particles, canvas, mode, velocityLeak, activeParticle,
                 idx, frames, resized, frame, last>>

\* lines 142-148
handleMouseClickOverParticle ==
  /\ Event
  /\ mode = "edit"
  /\ \E pt \in ClientPoints :
       LET particle == findParticleWithCords(convertCordsToCanvasCords(pt))
       IN /\ particle # 0
          /\ activeParticle' = particle
  /\ UNCHANGED <<particles, canvas, mode, velocityLeak, mousePos,
                 idx, frames, resized, frame, last>>

\* line 200
SetModeCollision ==
  /\ Event
  /\ mode' = "collision"
  /\ UNCHANGED <<particles, canvas, velocityLeak, mousePos, activeParticle,
                 idx, frames, resized, frame, last>>

\* line 203
SetModeEdit ==
  /\ Event
  /\ mode' = "edit"
  /\ UNCHANGED <<particles, canvas, velocityLeak, mousePos, activeParticle,
                 idx, frames, resized, frame, last>>

\* line 208
ToggleVelocityLeak ==
  /\ Event
  /\ velocityLeak' = ~velocityLeak
  /\ UNCHANGED <<particles, canvas, mode, mousePos, activeParticle,
                 idx, frames, resized, frame, last>>

\* lines 224-227
OnChangeSize ==
  /\ Event
  /\ activeParticle # 0
  /\ \E v \in SizeInputs :
       particles' = [particles EXCEPT ![activeParticle].size = v]
  /\ UNCHANGED <<canvas, mode, velocityLeak, mousePos, activeParticle,
                 idx, frames, resized, frame, last>>

\* lines 237-240
OnChangeX ==
  /\ Event
  /\ activeParticle # 0
  /\ \E v \in CoordInputs :
       particles' = [particles EXCEPT ![activeParticle].x = v]
  /\ UNCHANGED <<canvas, mode, velocityLeak, mousePos, activeParticle,
                 idx, frames, resized, frame, last>>

\* lines 250-253
OnChangeY ==
  /\ Event
  /\ activeParticle # 0
  /\ \E v \in CoordInputs :
       particles' = [particles EXCEPT ![activeParticle].y = v]
  /\ UNCHANGED <<canvas, mode, velocityLeak, mousePos, activeParticle,
                 idx, frames, resized, frame, last>>

Next ==
  \/ Animate
  \/ updateCanvasSize
  \/ handleMouseMove
  \/ handleMouseClickOverParticle
  \/ SetModeCollision
  \/ SetModeEdit
  \/ ToggleVelocityLeak
  \/ OnChangeSize
  \/ OnChangeX
  \/ OnChangeY

Spec == Init /\ [][Next]_vars

SpecRunning == InitRunning /\ [][Next]_vars

\* ------------------------------------------------------------- properties
\* the step is one call of move, of particle idx + 1
MoveStep == idx' # idx \/ frames' # frames

Fits(q, cv) == cv.width >= 2 * q.size /\ cv.height >= 2 * q.size

InRange(x, y, q, cv) ==
  /\ q.size <= x /\ x <= cv.width - q.size
  /\ q.size <= y /\ y <= cv.height - q.size

\* C1 as stated: whenever move returns, the centre of the moved particle
\* satisfies size <= x <= width - size and size <= y <= height - size
\* (canvas at least 2 * size wide and high)
ContainmentAfterMove ==
  [][MoveStep =>
       LET q == particles'[idx + 1]
       IN Fits(q, canvas) => InRange(q.x, q.y, q, canvas)]_vars

\* C1 amended: the containment holds right after the boundary step of move
\* (lines 79-90), before the integration; when move returns the centre is
\* that position plus the displacement (dirX, dirY) of the tick
ContainmentAfterBounce ==
  [][MoveStep =>
       LET q == particles'[idx + 1]
           m == last'.mid
       IN /\ Fits(q, canvas) => InRange(m.x, m.y, q, canvas)
          /\ q.x = m.x + m.dirX
          /\ q.y = m.y + m.dirY]_vars

\* a particle created outside the range was clamped into it by the boundary
\* step and left it again in the integration of the same call
ContainmentWitness ==
  /\ last.i # 0
  /\ idx # 0
  /\ Fits(last.pre, last.canvas)
  /\ last.hitX
  /\ ~InRange(last.pre.x, last.pre.y, last.pre, last.canvas)
  /\ InRange(last.mid.x, last.mid.y, last.pre, last.canvas)
  /\ ~InRange(particles[last.i].x, particles[last.i].y, last.pre, last.canvas)

\* canvas coordinates a pointer can be at: those of the mouse events, the
\* centre of each particle, a point next to it
PointerProbes ==
  {convertCordsToCanvasCords(pt) : pt \in ClientPoints}
  \cup {[x |-> particles[i].x, y |-> particles[i].y] : i \in Indices}
  \cup {[x |-> particles[i].x + Unit, y |-> particles[i].y - Unit] : i \in Indices}

\* C2: in edit mode a call of move gives the same particle for every pointer
\* position, one within MOUSE_COLLISION_RADIUS + size included
EditIgnoresPointer ==
  [][(MoveStep /\ mode = "edit") =>
       \A pt \in PointerProbes :
          particles'[idx + 1] =
            move(particles[idx + 1], idx + 1, pt, particles, mode, velocityLeak, canvas)]_vars

\* a particle was moved in edit mode with the pointer in its collision range
EditIgnoresPointerWitness ==
  /\ last.i # 0
  /\ last.mode = "edit"
  /\ Collides(last.pre, last.mouse, MOUSE_COLLISION_RADIUS)
  /\ PushX(last.pre, last.mouse) # 0

\* C3: every particle's size lies in [MIN_PARTICLE_SIZE, MAX_PARTICLE_SIZE]
RadiusInvariant ==
  \A i \in Indices :
     MIN_PARTICLE_SIZE <= particles[i].size /\ particles[i].size <= MAX_PARTICLE_SIZE

\* C4 as stated: with the leak on and no pointer or particle collision in
\* the call, move strictly decreases the magnitude of every non-zero
\* velocity component and changes the sign of none
LeakMonotone ==
  [][(MoveStep /\ velocityLeak /\ ~last'.collided) =>
       LET p == particles[idx + 1]
           q == particles'[idx + 1]
       IN /\ p.dirX # 0 => (Abs(q.dirX) < Abs(p.dirX) /\ p.dirX * q.dirX >= 0)
          /\ p.dirY # 0 => (Abs(q.dirY) < Abs(p.dirY) /\ p.dirY * q.dirY >= 0)]_vars

\* C4 amended: under the same conditions move never increases the magnitude
\* of a velocity component, strictly decreases it when the leaked amount
\* dir * PARTICLE_VELOCITY_LEAK_MODIFIER does not round to zero, and changes
\* the sign of a component only when the boundary check of its own axis
\* fires, which reverses it
LeakMonotoneUnlessBounce ==
  [][(MoveStep /\ velocityLeak /\ ~last'.collided) =>
       LET p == particles[idx + 1]
           q == particles'[idx + 1]
           m == last'.mid
       IN /\ Abs(q.dirX) <= Abs(p.dirX)
          /\ Abs(q.dirY) <= Abs(p.dirY)
          /\ LeakOf(m.dirX) # 0 => Abs(q.dirX) < Abs(p.dirX)
          /\ LeakOf(m.dirY) # 0 => Abs(q.dirY) < Abs(p.dirY)
          /\ ~last'.hitX => p.dirX * q.dirX >= 0
          /\ ~last'.hitY => p.dirY * q.dirY >= 0
          /\ last'.hitX => p.dirX * q.dirX <= 0
          /\ last'.hitY => p.dirY * q.dirY <= 0]_vars

\* a leaking particle, free of collisions, lost speed on both axes in one
\* call and had its x velocity reversed by the boundary
LeakWitness ==
  /\ last.i # 0
  /\ last.leak
  /\ ~last.collided
  /\ last.hitX
  /\ ~last.hitY
  /\ last.pre.dirX * particles[last.i].dirX < 0
  /\ 0 < particles[last.i].dirY
  /\ particles[last.i].dirY < last.pre.dirY

\* the points and radii collideWithRadius is tried on: the pointer, every
\* particle with its size, the particle's own centre, a point straight
\* below it
Probes(p) ==
  {[cords |-> convertCordsToCanvasCords(mousePos), r |-> MOUSE_COLLISION_RADIUS]}
  \cup {[cords |-> [x |-> particles[j].x, y |-> particles[j].y], r |-> particles[j].size] :
          j \in Indices}
  \cup {[cords |-> [x |-> p.x, y |-> p.y], r |-> MOUSE_COLLISION_RADIUS],
        [cords |-> [x |-> p.x, y |-> p.y + p.size], r |-> MOUSE_COLLISION_RADIUS]}

Sign(a, b) == IF a < b THEN -1 ELSE IF a > b THEN 1 ELSE 0

\* C5: within collisionRadius + size of the point each velocity axis changes
\* by -V, +V or 0 as the particle's coordinate is less than, greater than or
\* equal to the point's; farther away the velocity is unchanged; the
\* position is never changed
ImpulseRule ==
  \A i \in Indices :
    LET p == particles[i]
    IN \A pr \in Probes(p) :
         LET q == collideWithRadius(p, pr.cords, pr.r)
             near == Within(pr.cords.x - p.x, pr.cords.y - p.y, pr.r + p.size)
         IN /\ q.x = p.x /\ q.y = p.y /\ q.size = p.size
            /\ near => /\ q.dirX - p.dirX
                            = Sign(p.x, pr.cords.x) * PARTICLE_COLLISION_VELOCITY
                       /\ q.dirY - p.dirY
                            = Sign(p.y, pr.cords.y) * PARTICLE_COLLISION_VELOCITY
            /\ ~near => (q.dirX = p.dirX /\ q.dirY = p.dirY)

\* a particle straight above a neighbour in range was moved: its y velocity
\* took the impulse, its x velocity none
ImpulseWitness ==
  /\ last.i # 0
  /\ idx # 0
  /\ last.pre.dirX = 0 /\ last.pre.dirY = 0
  /\ ~last.hitX /\ ~last.hitY
  /\ \E j \in Indices \ {last.i} :
       /\ Collides(last.pre, particles[j], particles[j].size)
       /\ particles[j].x = last.pre.x
       /\ particles[j].y > last.pre.y
  /\ particles[last.i].dirX = 0
  /\ particles[last.i].dirY < 0

\* the check of line 76 made by p against p1 fires
NeighbourFires(p, p1) == Collides(p, p1, NeighbourRadius(p, p1))

\* C6: two distinct particles closer than the sum of their sizes each fire
\* the check against the other, and on every axis where their coordinates
\* differ they take impulses of opposite sign
PairwiseSymmetry ==
  \A i \in Indices : \A j \in Indices \ {i} :
    LET a == particles[i]
        b == particles[j]
    IN Within(b.x - a.x, b.y - a.y, a.size + b.size) =>
         /\ NeighbourFires(a, b)
         /\ NeighbourFires(b, a)
         /\ a.x # b.x =>
              (NeighbourCheck(a, b).dirX - a.dirX) * (NeighbourCheck(b, a).dirX - b.dirX) < 0
         /\ a.y # b.y =>
              (NeighbourCheck(a, b).dirY - a.dirY) * (NeighbourCheck(b, a).dirY - b.dirY) < 0

\* two particles of different size overlap, apart on both axes and farther
\* apart than twice the smaller size, and one has just been moved
PairwiseWitness ==
  /\ last.i # 0
  /\ last.collided
  /\ \E i \in Indices : \E j \in Indices \ {i} :
       LET a == particles[i]
           b == particles[j]
       IN /\ Within(b.x - a.x, b.y - a.y, a.size + b.size)
          /\ ~Within(b.x - a.x, b.y - a.y, 2 * a.size)
          /\ a.x # b.x /\ a.y # b.y

\* the indices other than i, ascending
RECURSIVE OthersFrom(_, _)
OthersFrom(i, k) ==
  IF k > NumParticles THEN << >>
  ELSE IF k = i THEN OthersFrom(i, k + 1)
  ELSE <<k>> \o OthersFrom(i, k + 1)

\* C7: a call of move checks the particle against each other element of the
\* array once, NumParticles - 1 checks, and never against itself; an element
\* equal in position and size but not the same object is checked
SelfExclusion ==
  last.i # 0 =>
    /\ Len(last.checked) = NumParticles - 1
    /\ last.checked = OthersFrom(last.i, 1)
    /\ \A k \in 1..Len(last.checked) : last.checked[k] # last.i

\* the particle just moved has a twin, which was checked
SelfExclusionWitness ==
  /\ last.i # 0
  /\ idx = last.i
  /\ \E j \in Indices :
       /\ j > last.i
       /\ particles[j] = last.pre
       /\ \E k \in 1..Len(last.checked) : last.checked[k] = j

HalfPixel == Unit \div 2

\* the particle of the boundary example, d beyond x = width - size - 0.5
AtExample(p, cv, d) ==
  /\ p.x = cv.width - p.size - HalfPixel + d
  /\ p.dirX = Unit

ResizeThenClamp ==
  [][/\ canvas' # canvas => particles' = particles
     /\ (MoveStep /\ resized) =>
          LET p == particles[idx + 1]
              m == last'.mid
          IN /\ p.x + p.size >= canvas.width => m.x = canvas.width - p.size
             /\ p.y + p.size >= canvas.height => m.y = canvas.height - p.size
             /\ m.x <= canvas.width - p.size
             /\ m.y <= canvas.height - p.size]_vars

\* the canvas shrank to less than a particle's right and bottom edges and
\* the next frame put the particle on the new bounds
ResizeWitness ==
  /\ last.i # 0
  /\ last.resized
  /\ last.canvas # MountSize
  /\ last.pre.x + last.pre.size > last.canvas.width
  /\ last.pre.y + last.pre.size > last.canvas.height
  /\ last.pre.x + last.pre.size < MountSize.width
  /\ last.pre.y + last.pre.size < MountSize.height
  /\ last.mid.x = last.canvas.width - last.pre.size
  /\ last.mid.y = last.canvas.height - last.pre.size

\* what the particle at index j reads in a single pass: this frame's results
\* below j, the state at the start of the frame from j on
SinglePassView(j, fr) ==
  [i \in Indices |-> IF i < j THEN fr.moved[i] ELSE fr.start[i]]

\* C10: in a frame the particles are moved one at a time in array order;
\* the particle at index j is moved against this frame's results of the
\* particles below j and last frame's state of the particles above j
SinglePass ==
  [][MoveStep =>
       LET j == idx + 1
       IN /\ j = Len(frame'.moved)
          /\ \A i \in Indices \ {j} : particles'[i] = particles[i]
          /\ \A i \in 1..(j - 1) : particles[i] = frame'.moved[i]
          /\ \A k \in (j + 1)..NumParticles : particles[k] = frame'.start[k]
          /\ particles'[j] =
               move(frame'.start[j], j, convertCordsToCanvasCords(mousePos),
                    SinglePassView(j, frame'), mode, velocityLeak, canvas)]_vars

\* a particle was moved after a neighbour below it had moved in the same
\* frame, and against the neighbour's old state it would have moved otherwise
SinglePassWitness ==
  /\ last.i > 1
  /\ Len(frame.moved) = last.i
  /\ frame.moved[1] # frame.start[1]
  /\ frame.moved[last.i] #
       move(last.pre, last.i, last.mouse, frame.start, last.mode, last.leak, last.canvas)

====
